---- MODULE Spec2Model ----
(***************************************************************************)
(* A model of the UDP server-list prober of MindustryListofservers.        *)
(*                                                                         *)
(* The repository holds two variants of the prober:                        *)
(*   part_000  run() / main() / sendUDPRequests(servers) with hostPortMap, *)
(*             parseServerInfo and a 5 minute interval;                    *)
(*   part_001  setInterval(main, UDP_TIMEOUT) / sendUDPRequests() with raw *)
(*             ip:port keys, parseHexPayload and a non-responding list.    *)
(* The variable "variant" says which one a behaviour runs.                 *)
(*                                                                         *)
(* Representation.                                                         *)
(*   - A text is a sequence of character codes; payload bytes are below    *)
(*     128, so that the UTF-8 decoding of a byte range is that range.      *)
(*   - A key `${host}:${port}` is the pair <<host, port>>: loadServers     *)
(*     splits every address at ':' and rinfo.address is a dotted IPv4      *)
(*     address, so a host never holds a ':' and split(':') of a key gives  *)
(*     the pair back.                                                      *)
(*   - A display address is <<host>> (the host alone) or <<host, port>>.   *)
(*   - A datagram in hex is the sequence of its hex digits (0..15).        *)
(*   - Time is in milliseconds. "now" is the time the timers run on; "ms"  *)
(*     is what Date.now() is ahead of it, which grows between the          *)
(*     datagrams of a window.                                              *)
(***************************************************************************)
EXTENDS Integers, Sequences, FiniteSets, TLC

VARIABLES
  variant,      \* "part_000" or "part_001": the script that runs
  serversFile,  \* the content of servers_v7.json: a sequence of server groups
  now,          \* the time of the event loop, in ms
  ms,           \* Date.now() - now
  timers,       \* the pending timers, in the order they will run
  rounds,       \* the state of each call of main(), by its number
  nStarted,     \* how many calls of main() were made
  msgCount,     \* how many datagrams were delivered
  crashed,      \* an uncaught exception ended the process
  tagText,      \* a string given to processColorTags
  rewritten,    \* what processColorTags returned for it, pass after pass
  download      \* the call of downloadServerList(): its position and what it did

vars == <<variant, serversFile, now, ms, timers, rounds, nStarted, msgCount, crashed,
          tagText, rewritten, download>>

(***************************************************************************)
(* Bounds of the model.                                                    *)
(***************************************************************************)
\* The calls of main() and the datagrams of a run of the whole program.
MaxRounds == 2
SchedMsgs == 1
\* The datagrams of a run of one round.
MaxMsgs == 2
\* The longest string given to processColorTags, and how often it is applied.
MaxTextLen == 5
MaxPasses == 2

(***************************************************************************)
(* Program constants.                                                      *)
(***************************************************************************)
CLIENT_PORT == 65415
UDP_TIMEOUT == 30000
RUN_INTERVAL == 5 * 60 * 1000
defaultPort == 6567
\* downloadServerList: the mirrors, the attempts on each and the pause between two.
SERVER_LIST_URLS == <<"raw.githubusercontent.com", "cdn.staticaly.com", "github.moeyy.xyz">>
MAX_RETRIES == 3
RETRY_DELAY == 5000

\* downloadServerList() was not called.
NotCalled ==
  [pc |-> "none", urlIndex |-> 0, attempt |-> 0, data |-> <<>>, log |-> <<>>]

REQUEST_DATA == <<254, 1>>

\* The period of the round scheduler: part_001 setInterval(main, UDP_TIMEOUT),
\* part_000 setInterval(..., 5 * 60 * 1000).
IntervalPeriod(v) == IF v = "part_001" THEN UDP_TIMEOUT ELSE RUN_INTERVAL

(***************************************************************************)
(* Sequences.                                                              *)
(***************************************************************************)
Range(s) == {s[i] : i \in 1..Len(s)}

\* s.slice(a, b) on 0-based positions a <= b within the sequence.
Slice(s, a, b) == [i \in 1..(b - a) |-> s[a + i]]

RECURSIVE Flatten(_)
Flatten(ss) == IF ss = <<>> THEN <<>> ELSE Head(ss) \o Flatten(Tail(ss))

\* Array.prototype.findIndex: the first 1-based index whose element has P, 0 if none.
FindFirst(s, P(_)) ==
  IF \E i \in 1..Len(s) : P(s[i])
  THEN CHOOSE i \in 1..Len(s) : P(s[i]) /\ \A j \in 1..(i - 1) : ~P(s[j])
  ELSE 0

(***************************************************************************)
(* msg.toString('hex') and Buffer.from(hexString, 'hex').                  *)
(***************************************************************************)
ToHex(bytes) == Flatten([i \in 1..Len(bytes) |-> <<bytes[i] \div 16, bytes[i] % 16>>])

\* An odd last digit is dropped, as Buffer.from does.
FromHex(hex) == [i \in 1..(Len(hex) \div 2) |-> 16 * hex[2 * i - 1] + hex[2 * i]]

(***************************************************************************)
(* Buffer reads.  readUInt8 / readInt8 throw a RangeError for an offset    *)
(* outside 0..length-1; toString clamps its range and never throws.        *)
(***************************************************************************)
InBuf(buf, off) == off >= 0 /\ off < Len(buf)

readUInt8(buf, off) == buf[off + 1]

readInt8(buf, off) == IF buf[off + 1] >= 128 THEN buf[off + 1] - 256 ELSE buf[off + 1]

BufToString(buf, start, end) ==
  LET s == IF start <= 0 THEN 0 ELSE start
      e == IF end > Len(buf) THEN Len(buf) ELSE end
  IN IF s >= Len(buf) \/ e <= s THEN <<>> ELSE Slice(buf, s, e)

(***************************************************************************)
(* Text helpers.  Character codes.                                         *)
(***************************************************************************)
LBracket == 91
RBracket == 93
LBrace == 123
RBrace == 125
Hash == 35
Space == 32
Bar == 124

IsLower(c) == c >= 97 /\ c <= 122
IsUpper(c) == c >= 65 /\ c <= 90
IsDigit(c) == c >= 48 /\ c <= 57

\* part_000 config.colorTagRegex /\[([a-z0-9#]+)\]/g : the token class.
IsTok000(c) == IsLower(c) \/ IsDigit(c) \/ c = Hash

\* part_001 config.colorTagRegex /\[#?(\w+)\]/g : \w.
IsWord(c) == IsLower(c) \/ IsUpper(c) \/ IsDigit(c) \/ c = 95

\* The length of the longest run of token characters of s from 1-based position i.
RECURSIVE RunLen(_, _, _)
RunLen(s, i, v) ==
  IF i <= Len(s) /\ (IF v = "part_001" THEN IsWord(s[i]) ELSE IsTok000(s[i]))
  THEN 1 + RunLen(s, i + 1, v)
  ELSE 0

\* text.replace(config.colorTagRegex, '{$1}') from 1-based position i on.
RECURSIVE ReplaceTags(_, _, _)
ReplaceTags(s, i, v) ==
  IF i > Len(s) THEN <<>>
  ELSE LET j == IF v = "part_001" /\ i + 1 <= Len(s) /\ s[i + 1] = Hash
                THEN i + 2 ELSE i + 1
           n == RunLen(s, j, v)
       IN IF s[i] = LBracket /\ n >= 1 /\ j + n <= Len(s) /\ s[j + n] = RBracket
          THEN <<LBrace>> \o Slice(s, j - 1, j - 1 + n) \o <<RBrace>>
                 \o ReplaceTags(s, j + n + 1, v)
          ELSE <<s[i]>> \o ReplaceTags(s, i + 1, v)

processColorTags(text, v) == ReplaceTags(text, 1, v)

\* text.replace("[]", " "): the first "[]" becomes one space.
ReplaceEmptyTag(s) ==
  LET hit(i) == s[i] = LBracket /\ s[i + 1] = RBracket
  IN IF \E i \in 1..(Len(s) - 1) : hit(i)
     THEN LET i == CHOOSE k \in 1..(Len(s) - 1) :
                     hit(k) /\ \A j \in 1..(k - 1) : ~hit(j)
          IN Slice(s, 0, i - 1) \o <<Space>> \o Slice(s, i + 1, Len(s))
     ELSE s

\* The elements of s at the positions that have Keep, in order.
KeepIdx(s, Keep(_)) ==
  LET idx == SelectSeq([i \in 1..Len(s) |-> i], Keep)
  IN [k \in 1..Len(idx) |-> s[idx[k]]]

\* String.prototype.trim, on a text whose only white space is the space.
RECURSIVE TrimLeft(_)
TrimLeft(s) == IF s # <<>> /\ Head(s) = Space THEN TrimLeft(Tail(s)) ELSE s

RECURSIVE TrimRight(_)
TrimRight(s) ==
  IF s # <<>> /\ s[Len(s)] = Space THEN TrimRight(SubSeq(s, 1, Len(s) - 1)) ELSE s

Trim(s) == TrimRight(TrimLeft(s))

(***************************************************************************)
(* Literals of the source that are not ASCII are reserved codes.           *)
(***************************************************************************)
UnknownServer == <<-1>>
UnknownText == <<-2>>
UnknownMap == <<-3>>
ParseFailedName == <<-4>>
ParseFailedDesc == <<-5>>
NoDescription == <<-6>>
ErrorDetail == <<-7>>

(***************************************************************************)
(* part_000 parseServerInfo(hexString).  The result has ok = FALSE when    *)
(* one of the reads throws.                                                *)
(***************************************************************************)
parseServerInfo(hexString) ==
  LET buf == FromHex(hexString)
      nameLenth == readUInt8(buf, 0)
      mapLenth == readUInt8(buf, nameLenth + 1)
      offOffical == nameLenth + 1 + mapLenth + 1 + 12
      officalLenth == readUInt8(buf, offOffical)
      offDesc == nameLenth + 1 + mapLenth + 1 + 12 + officalLenth + 1 - 1 + 6
      descriptionLenth == readInt8(buf, offDesc)
      offPlayers == nameLenth + 2 + mapLenth + 1 + 2
      thrown == [ok |-> FALSE, name |-> <<>>, description |-> <<>>,
                 players |-> 0, map |-> <<>>]
  IN IF ~InBuf(buf, 0) THEN thrown
     ELSE IF ~InBuf(buf, nameLenth + 1) THEN thrown
     ELSE IF ~InBuf(buf, offOffical) THEN thrown
     ELSE IF ~InBuf(buf, offDesc) THEN thrown
     ELSE IF ~InBuf(buf, offPlayers) THEN thrown
     ELSE LET local_name == ReplaceEmptyTag(BufToString(buf, 1, nameLenth - 1))
              local_map == ReplaceEmptyTag(
                 BufToString(buf, nameLenth + 2, nameLenth + 2 + mapLenth))
              local_players == readUInt8(buf, offPlayers)
              local_description == ReplaceEmptyTag(
                 BufToString(buf, offDesc + 1, offDesc + 1 + descriptionLenth))
          IN [ok |-> TRUE,
              name |-> processColorTags(local_name, "part_000"),
              description |-> processColorTags(local_description, "part_000"),
              players |-> local_players,
              map |-> processColorTags(local_map, "part_000")]

(***************************************************************************)
(* part_001 parseHexPayload(hexString): throws on the empty string, else   *)
(* the text without control characters, white space collapsed, trimmed.    *)
(***************************************************************************)
parseHexPayload(hexString) ==
  IF hexString = <<>> THEN [ok |-> FALSE, text |-> <<>>]
  ELSE LET str == FromHex(hexString)
           noCtl == KeepIdx(str, LAMBDA i : ~(str[i] <= 31 \/ str[i] = 127))
           oneSp == KeepIdx(noCtl,
                      LAMBDA i : ~(noCtl[i] = Space /\ i > 1 /\ noCtl[i - 1] = Space))
       IN [ok |-> TRUE, text |-> Trim(oneSp)]

\* parsedData.split(config.nameDescSeparator): the part before the first '|'
\* and the rest joined again.
NamePart(text) ==
  LET k == FindFirst(text, LAMBDA c : c = Bar)
  IN IF k = 0 THEN text ELSE SubSeq(text, 1, k - 1)

DescPart(text) ==
  LET k == FindFirst(text, LAMBDA c : c = Bar)
  IN IF k = 0 THEN <<>> ELSE SubSeq(text, k + 1, Len(text))

(***************************************************************************)
(* Array.prototype.sort with a comparator on the timestamps: stable, in    *)
(* place.  Before(a, b) is "the comparator puts a strictly before b".      *)
(***************************************************************************)
StableSort(s, Before(_, _)) ==
  LET first(i, j) == Before(s[i], s[j]) \/ (~Before(s[j], s[i]) /\ i < j)
      rank(i) == 1 + Cardinality({j \in 1..Len(s) : j # i /\ first(j, i)})
  IN [k \in 1..Len(s) |-> s[CHOOSE i \in 1..Len(s) : rank(i) = k]]

\* part_000 line 251: responses.sort((a, b) => b.timestamp - a.timestamp)
SortDescending(s) == StableSort(s, LAMBDA a, b : a.timestamp > b.timestamp)

\* part_001 lines 126, 225: sort((a, b) => a.timestamp - b.timestamp)
SortAscending(s) == StableSort(s, LAMBDA a, b : a.timestamp < b.timestamp)

(***************************************************************************)
(* Keys and display addresses.                                             *)
(***************************************************************************)
KeyOf(host, port) == <<host, port>>

\* port && parseInt(port) !== config.defaultPort ? `${host}:${port}` : host
displayAddress(address) ==
  IF address[2] # defaultPort THEN address ELSE <<address[1]>>

(***************************************************************************)
(* The environment: the server list file, the name service, the senders    *)
(* of datagrams and the datagrams they send.                               *)
(***************************************************************************)
FileEmpty == <<>>
FileOne == <<[name |-> "Alpha", address |-> << <<"a.test", 6567>> >>]>>
FileSamePort ==
  <<[name |-> "Alpha", address |-> << <<"a.test">> >>],
    [name |-> "Beta", address |-> << <<"example.com", 6567>> >>]>>
FileTwoPorts ==
  <<[name |-> "Beta", address |-> << <<"example.com">>, <<"10.0.0.1", 6568>> >>]>>

\* The first address never resolves, the port of the second is no UDP port.
FileBadSend ==
  <<[name |-> "Gamma",
     address |-> << <<"nohost.invalid", 6568>>, <<"bad.test", 70000>>,
                    <<"a.test", 6567>> >>]>>

ServerFiles == {FileEmpty, FileOne, FileSamePort, FileTwoPorts, FileBadSend}

\* The address a host name resolves to; an IP address is its own.
Resolve(host) ==
  CASE host = "example.com" -> "203.0.113.5"
    [] host = "a.test" -> "198.51.100.7"
    [] OTHER -> host

\* The lookup of the host fails: socket.send passes the error to its callback.
Unresolvable(host) == host = "nohost.invalid"

\* socket.send throws (ERR_SOCKET_BAD_PORT) for a port outside 1..65535.
PortOk(port) == port >= 1 /\ port <= 65535

\* <<rinfo.address, rinfo.port>> of the datagrams that may arrive; the last
\* one is no target's address.
Senders == { <<"198.51.100.7", 6567>>, <<"203.0.113.5", 6567>>, <<"192.0.2.9", 7000>> }

\* 04 "Name" 03 "Map" players=7 wave=1 version=100 00 (version type) 00
\* 00000000 02 "hi"
PayloadOk ==
  <<4, 78, 97, 109, 101, 3, 77, 97, 112, 0, 0, 0, 7, 0, 0, 0, 1, 0, 0, 0, 100,
    0, 0, 0, 0, 0, 0, 2, 104, 105>>

\* A datagram of length 0.
PayloadEmpty == <<>>

Payloads == {PayloadOk, PayloadEmpty}

(***************************************************************************)
(* loadServers: one target for every address of every group, the port      *)
(* defaulting to config.defaultPort.  part_000 names the field host,       *)
(* part_001 names it ip.                                                   *)
(***************************************************************************)
loadServers(file) ==
  Flatten([g \in 1..Len(file) |->
    [a \in 1..Len(file[g].address) |->
      LET addr == file[g].address[a]
      IN [host |-> addr[1],
          port |-> IF Len(addr) >= 2 THEN addr[2] ELSE defaultPort,
          name |-> file[g].name]]])

(***************************************************************************)
(* The ReplySet: the object "responses", its keys in insertion order.      *)
(***************************************************************************)
Keys(rs) == [i \in 1..Len(rs) |-> rs[i].key]

HasKey(rs, k) == \E i \in 1..Len(rs) : rs[i].key = k

Get(rs, k) == rs[CHOOSE i \in 1..Len(rs) : rs[i].key = k].list

\* if (!responses[key]) responses[key] = []; responses[key].push(reply)
Push(rs, k, reply) ==
  IF HasKey(rs, k)
  THEN [i \in 1..Len(rs) |->
         IF rs[i].key = k THEN [rs[i] EXCEPT !.list = Append(@, reply)] ELSE rs[i]]
  ELSE Append(rs, [key |-> k, list |-> <<reply>>])

(***************************************************************************)
(* The state of one call of main().                                        *)
(*   pc    where main() is: idle, load (part_000 awaits loadServers),      *)
(*         probe (awaits sendUDPRequests), resolved, enhanced, ipdone,     *)
(*         final (the outputs are written), done                           *)
(*   sock  none, open (created), bound, closed                             *)
(*   bind  none, pending, ok, failed                                       *)
(*   cb    the bind callback: none, loading (part_001 awaits loadServers), *)
(*         done, thrown (part_000: an exception left it)                   *)
(*   sent  the targets socket.send was called for and did not throw        *)
(*   sendFailed  the targets whose send callback logged an error           *)
(* delivered (every datagram handled, with the key it was stored under),   *)
(* closeCalls, resolveCalls and lateSend record what happened.             *)
(***************************************************************************)
IdleRound ==
  [pc |-> "idle", sock |-> "none", bind |-> "none", cb |-> "none",
   servers |-> <<>>, hostPortMap |-> <<>>, sent |-> <<>>, sendFailed |-> <<>>,
   responses |-> <<>>,
   report |-> <<>>, noResponse |-> <<>>,
   delivered |-> <<>>, closeCalls |-> 0, resolveCalls |-> 0, lateSend |-> FALSE]

Timeout(r, due) == [kind |-> "timeout", r |-> r, due |-> due]
Interval(due) == [kind |-> "interval", r |-> 0, due |-> due]

\* A timer is put behind the timers that are due no later than it.
InsertTimer(tm, t) ==
  LET n == Cardinality({i \in 1..Len(tm) : tm[i].due <= t.due})
  IN SubSeq(tm, 1, n) \o <<t>> \o SubSeq(tm, n + 1, Len(tm))

(***************************************************************************)
(* sendUDPRequests, up to its first return to the event loop: the socket   *)
(* is created and its bind requested; part_001 also registers the handlers *)
(* and arms the timer here, part_000 does so in the bind callback.         *)
(***************************************************************************)
sendUDPRequests(rd, servers) ==
  [rd EXCEPT !.pc = "probe", !.sock = "open", !.bind = "pending",
             !.servers = servers]

\* The timers after sendUDPRequests was called for round r.
ArmAtCreate(tm, r) ==
  IF variant = "part_001" THEN InsertTimer(tm, Timeout(r, now + UDP_TIMEOUT)) ELSE tm

\* The start of main(): part_000 awaits loadServers, part_001 calls
\* sendUDPRequests at once.
main(rd) ==
  IF variant = "part_000" THEN [rd EXCEPT !.pc = "load"] ELSE sendUDPRequests(rd, <<>>)

\* part_000 run(): the interval is set when the first main() has returned.
AfterMain(tm, r) ==
  IF variant = "part_000" /\ r = 1
  THEN InsertTimer(tm, Interval(now + IntervalPeriod(variant)))
  ELSE tm

(***************************************************************************)
(* part_000 main(), lines 304-326: the list is loaded; an empty list ends  *)
(* main() (the download of a list, on its own in SpecDownload, leaves the  *)
(* list empty here), any other list is probed.                             *)
(***************************************************************************)
MainLoaded(r) ==
  /\ ~crashed
  /\ variant = "part_000"
  /\ rounds[r].pc = "load"
  /\ LET servers == loadServers(serversFile)
     IN IF servers = <<>>
        THEN /\ rounds' = [rounds EXCEPT ![r] = [IdleRound EXCEPT !.pc = "done"]]
             /\ timers' = AfterMain(timers, r)
        ELSE /\ rounds' = [rounds EXCEPT ![r] = sendUDPRequests(@, servers)]
             /\ timers' = timers
  /\ UNCHANGED <<download, tagText, rewritten, variant, serversFile, now, ms, nStarted, msgCount, crashed>>

(***************************************************************************)
(* The bind of CLIENT_PORT fails when the port is held, by another socket  *)
(* of this process or by another process.  The socket emits 'error':       *)
(* part_001 has its handler (line 106) and goes on; part_000 registers its *)
(* handler in the bind callback only (line 164), so the event is an        *)
(* uncaught exception.  The bind callback never runs.                      *)
(***************************************************************************)
PortHeld(r) == \E q \in DOMAIN rounds : q # r /\ rounds[q].sock = "bound"

BindFail(r) ==
  /\ ~crashed
  /\ rounds[r].bind = "pending"
  /\ rounds[r].sock = "open"
  /\ rounds' = [rounds EXCEPT ![r].bind = "failed"]
  /\ crashed' = (variant = "part_000")
  /\ UNCHANGED <<download, tagText, rewritten, variant, serversFile, now, ms, timers, nStarted, msgCount>>

\* hostPortMap[`${server.host}:${server.port}`] = key, in the order of the list.
RECURSIVE hostPortMapOf(_)
hostPortMapOf(servers) ==
  IF servers = <<>> THEN <<>>
  ELSE LET rest == hostPortMapOf(SubSeq(servers, 1, Len(servers) - 1))
           key == KeyOf(servers[Len(servers)].host, servers[Len(servers)].port)
       IN IF key \in Range(rest) THEN rest ELSE Append(rest, key)

\* A bind callback without the case of the empty list, for comparison.
BindCallbackNoShortcut(rd) ==
  [rd EXCEPT !.hostPortMap = hostPortMapOf(rd.servers),
             !.sent = rd.servers, !.cb = "done"]

(***************************************************************************)
(* servers.forEach(server => socket.send(...)): the index of the first     *)
(* target whose send throws (0 if none), which ends the loop, and the      *)
(* targets whose send callback is called with an error.                    *)
(***************************************************************************)
FirstThrow(servers) ==
  IF \E i \in 1..Len(servers) : ~PortOk(servers[i].port)
  THEN CHOOSE i \in 1..Len(servers) :
         /\ ~PortOk(servers[i].port)
         /\ \A j \in 1..(i - 1) : PortOk(servers[j].port)
  ELSE 0

SendErrors(servers) == SelectSeq(servers, LAMBDA server : Unresolvable(server.host))

(***************************************************************************)
(* part_000, lines 132-173: the bind callback.  An exception of            *)
(* socket.send leaves the callback before the handlers are registered and  *)
(* the timer is armed; nothing catches it.                                 *)
(***************************************************************************)
BindCallback000(rd) ==
  IF rd.servers = <<>>
  THEN [rd EXCEPT !.sock = "closed", !.closeCalls = @ + 1,
                  !.resolveCalls = @ + 1, !.pc = "resolved", !.cb = "done"]
  ELSE LET n == FirstThrow(rd.servers)
       IN IF n = 0
          THEN [rd EXCEPT !.hostPortMap = hostPortMapOf(rd.servers),
                          !.sent = rd.servers,
                          !.sendFailed = SendErrors(rd.servers), !.cb = "done"]
          ELSE [rd EXCEPT !.hostPortMap = hostPortMapOf(SubSeq(rd.servers, 1, n)),
                          !.sent = SubSeq(rd.servers, 1, n - 1),
                          !.sendFailed = SendErrors(SubSeq(rd.servers, 1, n - 1)),
                          !.cb = "thrown"]

BindOk000(r) ==
  /\ ~crashed
  /\ variant = "part_000"
  /\ rounds[r].bind = "pending"
  /\ ~PortHeld(r)
  /\ rounds' = [rounds EXCEPT ![r] =
       BindCallback000([@ EXCEPT !.sock = "bound", !.bind = "ok"])]
  /\ timers' = IF rounds[r].servers = <<>> \/ rounds'[r].cb = "thrown" THEN timers
               ELSE InsertTimer(timers, Timeout(r, now + UDP_TIMEOUT))
  /\ crashed' = (rounds'[r].cb = "thrown")
  /\ UNCHANGED <<download, tagText, rewritten, variant, serversFile, now, ms, nStarted, msgCount>>

(***************************************************************************)
(* part_001, lines 76-93: the bind callback awaits loadServers, then sends *)
(* to every server.  A send that throws (a closed socket, a port that is   *)
(* none) ends the loop in the catch.                                       *)
(***************************************************************************)
BindOk001(r) ==
  /\ ~crashed
  /\ variant = "part_001"
  /\ rounds[r].bind = "pending"
  /\ rounds[r].sock = "open"
  /\ ~PortHeld(r)
  /\ rounds' = [rounds EXCEPT ![r].sock = "bound", ![r].bind = "ok",
                              ![r].cb = "loading"]
  /\ UNCHANGED <<download, tagText, rewritten, variant, serversFile, now, ms, timers, nStarted, msgCount, crashed>>

SendAll001(rd) ==
  LET servers == loadServers(serversFile)
      n == FirstThrow(servers)
      done == IF n = 0 THEN servers ELSE SubSeq(servers, 1, n - 1)
  IN IF rd.sock = "closed"
     THEN [rd EXCEPT !.servers = servers, !.cb = "done",
                     !.lateSend = (servers # <<>>)]
     ELSE [rd EXCEPT !.servers = servers, !.cb = "done", !.sent = done,
                     !.sendFailed = SendErrors(done)]

CallbackLoaded(r) ==
  /\ ~crashed
  /\ variant = "part_001"
  /\ rounds[r].cb = "loading"
  /\ rounds' = [rounds EXCEPT ![r] = SendAll001(@)]
  /\ UNCHANGED <<download, tagText, rewritten, variant, serversFile, now, ms, timers, nStarted, msgCount, crashed>>

(***************************************************************************)
(* The 'message' handler.  part_000 lines 154-162: the key is the first    *)
(* key of hostPortMap that ends with `:${rinfo.port}`, else the raw key.   *)
(* part_001 lines 95-104: the key is the raw key.                          *)
(***************************************************************************)
rawKey(rd, address, port) == KeyOf(address, port)

matchedKey(rd, address, port) ==
  LET k == FindFirst(rd.hostPortMap, LAMBDA key : key[2] = port)
  IN IF variant = "part_000" /\ k # 0 THEN rd.hostPortMap[k] ELSE KeyOf(address, port)

Listening(rd) ==
  /\ rd.sock = "bound"
  /\ variant = "part_000" => rd.cb = "done"

\* A handler that ends the window when every target has answered, for
\* comparison: the early exit the code does not have.
MessageHandlerEarlyExit(rd, address, port, payload, timestamp) ==
  LET answered(t) ==
        \/ Resolve(t.host) = address /\ t.port = port
        \/ \E i \in 1..Len(rd.delivered) :
             rd.delivered[i].address = Resolve(t.host) /\ rd.delivered[i].port = t.port
      all == rd.sent # <<>> /\ \A i \in 1..Len(rd.sent) : answered(rd.sent[i])
  IN [rd EXCEPT
        !.responses = Push(@, matchedKey(rd, address, port),
                           [timestamp |-> timestamp, response |-> ToHex(payload)]),
        !.delivered = Append(@, [address |-> address, port |-> port,
                                 payload |-> payload, timestamp |-> timestamp,
                                 key |-> matchedKey(rd, address, port)]),
        !.sock = IF all THEN "closed" ELSE @,
        !.closeCalls = IF all THEN @ + 1 ELSE @,
        !.resolveCalls = IF all THEN @ + 1 ELSE @,
        !.pc = IF all /\ @ = "probe" THEN "resolved" ELSE @]

\* A handler that keeps the datagrams of the targets only, for comparison:
\* a datagram from a port that no target has is dropped.
MessageHandlerKnownOnly(rd, address, port, payload, timestamp) ==
  LET known == \E i \in 1..Len(rd.servers) : rd.servers[i].port = port
      d == [address |-> address, port |-> port, payload |-> payload,
            timestamp |-> timestamp, key |-> matchedKey(rd, address, port)]
  IN IF known
     THEN [rd EXCEPT
             !.responses = Push(@, matchedKey(rd, address, port),
                                [timestamp |-> timestamp, response |-> ToHex(payload)]),
             !.delivered = Append(@, d)]
     ELSE [rd EXCEPT !.delivered = Append(@, d)]

MessageHandler(rd, address, port, payload, timestamp) ==
  [rd EXCEPT
     !.responses = Push(@, matchedKey(rd, address, port),
                        [timestamp |-> timestamp, response |-> ToHex(payload)]),
     !.delivered = Append(@, [address |-> address, port |-> port,
                              payload |-> payload, timestamp |-> timestamp,
                              key |-> matchedKey(rd, address, port)])]

\* A datagram arrives, while fewer than budget have.
Receive(r, budget) ==
  /\ ~crashed
  /\ msgCount < budget
  /\ Listening(rounds[r])
  /\ \E sender \in Senders, payload \in Payloads, d \in {0, 1} :
       /\ ms' = ms + d
       /\ rounds' = [rounds EXCEPT ![r] =
            MessageHandler(@, sender[1], sender[2], payload, now + ms')]
  /\ msgCount' = msgCount + 1
  /\ UNCHANGED <<download, tagText, rewritten, variant, serversFile, now, timers, nStarted, crashed>>

OnMessage(r) == Receive(r, SchedMsgs)

(***************************************************************************)
(* The timer of the window: socket.close(); resolve(responses).            *)
(***************************************************************************)
TimeoutHandler(rd) ==
  [rd EXCEPT !.sock = "closed", !.closeCalls = @ + 1, !.resolveCalls = @ + 1,
             !.pc = IF @ = "probe" THEN "resolved" ELSE @]

OnTimeout(r) ==
  /\ ~crashed
  /\ timers # <<>>
  /\ Head(timers) = Timeout(r, Head(timers).due)
  /\ Head(timers).due <= now
  /\ timers' = Tail(timers)
  /\ rounds' = [rounds EXCEPT ![r] = TimeoutHandler(@)]
  /\ UNCHANGED <<download, tagText, rewritten, variant, serversFile, now, ms, nStarted, msgCount, crashed>>

(***************************************************************************)
(* part_000 processEnhancedData, lines 246-299.  Every list is sorted in   *)
(* place, latest first, and its first reply is decoded.  The ping of the   *)
(* host and the formatting of the date are left out.                       *)
(***************************************************************************)
\* An entry builder that does not mark a failure, for comparison: the reply
\* that is not decoded gets an entry of the shape of a decoded one.
Entry000Unmarked(address, responses) ==
  LET latest == SortDescending(responses)[1]
      info == parseServerInfo(latest.response)
  IN [ip |-> displayAddress(address), name |-> info.name,
      players |-> info.players, map |-> info.map,
      description |-> info.description, updatedAt |-> latest.timestamp,
      sentPackets |-> Len(responses),
      receivedMeta |-> Len(latest.response) \div 2]

Entry000(address, responses) ==
  LET latest == SortDescending(responses)[1]
      info == parseServerInfo(latest.response)
  IN IF info.ok
     THEN [ip |-> displayAddress(address), name |-> info.name,
           players |-> info.players, map |-> info.map,
           description |-> info.description, updatedAt |-> latest.timestamp,
           sentPackets |-> Len(responses),
           receivedMeta |-> Len(latest.response) \div 2]
     ELSE [ip |-> address, name |-> ParseFailedName, players |-> UnknownText,
           map |-> UnknownMap, description |-> ParseFailedDesc,
           updatedAt |-> now + ms, sentPackets |-> 0, receivedMeta |-> 0]

\* An aggregation without the try / catch around each key, for comparison:
\* the first reply that is not decoded ends it and no entry is returned.
processEnhancedDataAbort(rd) ==
  IF \E i \in 1..Len(rd.responses) :
       ~parseServerInfo(SortDescending(rd.responses[i].list)[1].response).ok
  THEN [rd EXCEPT !.report = <<>>, !.pc = "final"]
  ELSE [rd EXCEPT
          !.responses = [i \in 1..Len(@) |-> [@[i] EXCEPT !.list = SortDescending(@)]],
          !.report = [i \in 1..Len(rd.responses) |->
                        Entry000(rd.responses[i].key, rd.responses[i].list)],
          !.pc = "final"]

processEnhancedData000(rd) ==
  [rd EXCEPT
     !.responses = [i \in 1..Len(@) |-> [@[i] EXCEPT !.list = SortDescending(@)]],
     !.report = [i \in 1..Len(rd.responses) |->
                   Entry000(rd.responses[i].key, rd.responses[i].list)],
     !.pc = "final"]

(***************************************************************************)
(* part_001 processEnhancedData, lines 121-168.  Every list is sorted in   *)
(* place, latest last; the last reply is parsed into name and description. *)
(* results is an object: an entry of the same key replaces the earlier.    *)
(***************************************************************************)
Entry001(address, responsesArr) ==
  LET final == responsesArr[Len(responsesArr)]
      parsed == parseHexPayload(final.response)
      namePart == Trim(NamePart(parsed.text))
      desc == processColorTags(Trim(DescPart(parsed.text)), "part_001")
  IN IF parsed.ok
     THEN [key |-> displayAddress(address),
           name |-> processColorTags(
                      IF NamePart(parsed.text) = <<>> THEN UnknownServer ELSE namePart,
                      "part_001"),
           description |-> IF desc = <<>> THEN NoDescription ELSE desc,
           last_updated |-> final.timestamp, raw_hex |-> final.response,
           all_responses |-> responsesArr]
     ELSE [key |-> address, name |-> ParseFailedName, description |-> ErrorDetail,
           last_updated |-> now + ms, raw_hex |-> final.response,
           all_responses |-> responsesArr]

RECURSIVE Results001(_)
Results001(rs) ==
  IF rs = <<>> THEN <<>>
  ELSE LET rest == Results001(SubSeq(rs, 1, Len(rs) - 1))
           e == Entry001(rs[Len(rs)].key, rs[Len(rs)].list)
       IN IF \E i \in 1..Len(rest) : rest[i].key = e.key
          THEN [i \in 1..Len(rest) |-> IF rest[i].key = e.key THEN e ELSE rest[i]]
          ELSE Append(rest, e)

processEnhancedData001(rd) ==
  LET sorted == [i \in 1..Len(rd.responses) |->
                   [rd.responses[i] EXCEPT !.list = SortAscending(@)]]
  IN [rd EXCEPT !.responses = sorted, !.report = Results001(sorted),
                !.pc = "enhanced"]

processEnhancedData(rd) ==
  IF variant = "part_000" THEN processEnhancedData000(rd)
  ELSE processEnhancedData001(rd)

ProcessEnhancedData(r) ==
  /\ ~crashed
  /\ rounds[r].pc = "resolved"
  /\ rounds' = [rounds EXCEPT ![r] = processEnhancedData(@)]
  /\ UNCHANGED <<download, tagText, rewritten, variant, serversFile, now, ms, timers, nStarted, msgCount, crashed>>

(***************************************************************************)
(* part_001 processIPResponses, lines 218-305: every list is sorted in     *)
(* place again; the files it writes are not modelled.                      *)
(***************************************************************************)
processIPResponses(rd) ==
  [rd EXCEPT
     !.responses = [i \in 1..Len(@) |-> [@[i] EXCEPT !.list = SortAscending(@)]],
     !.pc = "ipdone"]

ProcessIPResponses(r) ==
  /\ ~crashed
  /\ variant = "part_001"
  /\ rounds[r].pc = "enhanced"
  /\ rounds' = [rounds EXCEPT ![r] = processIPResponses(@)]
  /\ UNCHANGED <<download, tagText, rewritten, variant, serversFile, now, ms, timers, nStarted, msgCount, crashed>>

(***************************************************************************)
(* part_001 main, lines 325-334: the servers whose key `${ip}:${port}` is  *)
(* no key of responses.                                                    *)
(***************************************************************************)
noResponseServers(rd) ==
  SelectSeq(loadServers(serversFile),
            LAMBDA server : ~HasKey(rd.responses, KeyOf(server.host, server.port)))

NoResponse(r) ==
  /\ ~crashed
  /\ variant = "part_001"
  /\ rounds[r].pc = "ipdone"
  /\ rounds' = [rounds EXCEPT ![r].noResponse = noResponseServers(rounds[r]),
                              ![r].pc = "final"]
  /\ UNCHANGED <<download, tagText, rewritten, variant, serversFile, now, ms, timers, nStarted, msgCount, crashed>>

(***************************************************************************)
(* main() returns: its locals are gone.                                    *)
(***************************************************************************)
Returned(rd) ==
  [IdleRound EXCEPT !.pc = "done", !.sock = rd.sock, !.bind = rd.bind,
                    !.cb = rd.cb, !.closeCalls = rd.closeCalls,
                    !.resolveCalls = rd.resolveCalls]

MainReturn(r) ==
  /\ ~crashed
  /\ rounds[r].pc = "final"
  /\ rounds' = [rounds EXCEPT ![r] = Returned(@)]
  /\ timers' = AfterMain(timers, r)
  /\ UNCHANGED <<download, tagText, rewritten, variant, serversFile, now, ms, nStarted, msgCount, crashed>>

(***************************************************************************)
(* The interval timer calls main() and is put back behind the timers that  *)
(* main() armed.  Once MaxRounds calls were made the model stops the       *)
(* scheduler.                                                              *)
(***************************************************************************)
OnInterval ==
  /\ ~crashed
  /\ timers # <<>>
  /\ Head(timers).kind = "interval"
  /\ Head(timers).due <= now
  /\ IF nStarted < MaxRounds
     THEN /\ nStarted' = nStarted + 1
          /\ rounds' = [rounds EXCEPT ![nStarted + 1] = main(@)]
          /\ timers' = InsertTimer(ArmAtCreate(Tail(timers), nStarted + 1),
                                   Interval(now + IntervalPeriod(variant)))
     ELSE /\ timers' = Tail(timers)
          /\ UNCHANGED <<nStarted, rounds>>
  /\ UNCHANGED <<download, tagText, rewritten, variant, serversFile, now, ms, msgCount, crashed>>

(***************************************************************************)
(* Time passes, up to the next timer, when no timer is due and no local    *)
(* step is pending: the bind and the reads of the server list take less    *)
(* than the time to the next timer, and so does what part_001 does after   *)
(* the window.  The pings of part_000 may take any time.                   *)
(***************************************************************************)
Pending(rd) ==
  \/ rd.bind = "pending"
  \/ rd.cb = "loading"
  \/ rd.pc = "load"
  \/ variant = "part_001" /\ rd.pc \in {"resolved", "enhanced", "ipdone", "final"}

Advance ==
  /\ ~crashed
  /\ timers # <<>>
  /\ Head(timers).due > now
  /\ \A r \in DOMAIN rounds : ~Pending(rounds[r])
  /\ now' = Head(timers).due
  /\ ms' = 0
  /\ UNCHANGED <<download, tagText, rewritten, variant, serversFile, timers, rounds, nStarted, msgCount, crashed>>

(***************************************************************************)
(* The program.  Init is the state when the script has run to its first    *)
(* return to the event loop: part_000 run() has called main(), part_001    *)
(* has set the interval and called main().                                 *)
(***************************************************************************)
Init ==
  /\ variant \in {"part_000", "part_001"}
  /\ serversFile \in ServerFiles
  /\ tagText = <<>>
  /\ download = NotCalled
  /\ rewritten = <<>>
  /\ now = 0
  /\ ms = 0
  /\ nStarted = 1
  /\ msgCount = 0
  /\ crashed = FALSE
  /\ rounds = [r \in 1..MaxRounds |-> IF r = 1 THEN main(IdleRound) ELSE IdleRound]
  /\ timers = IF variant = "part_001"
              THEN ArmAtCreate(<<Interval(IntervalPeriod(variant))>>, 1)
              ELSE <<>>

Next ==
  \/ OnInterval
  \/ Advance
  \/ \E r \in DOMAIN rounds : MainLoaded(r)
  \/ \E r \in DOMAIN rounds : BindFail(r)
  \/ \E r \in DOMAIN rounds : BindOk000(r)
  \/ \E r \in DOMAIN rounds : BindOk001(r)
  \/ \E r \in DOMAIN rounds : CallbackLoaded(r)
  \/ \E r \in DOMAIN rounds : OnMessage(r)
  \/ \E r \in DOMAIN rounds : OnTimeout(r)
  \/ \E r \in DOMAIN rounds : ProcessEnhancedData(r)
  \/ \E r \in DOMAIN rounds : ProcessIPResponses(r)
  \/ \E r \in DOMAIN rounds : NoResponse(r)
  \/ \E r \in DOMAIN rounds : MainReturn(r)

Spec == Init /\ [][Next]_vars

(***************************************************************************)
(* One round on its own: sendUDPRequests is called once, part_000 with any *)
(* list of servers (the empty one too, which main() never passes), and its *)
(* result goes through the steps of main() that follow.                    *)
(***************************************************************************)
RoundInit ==
  /\ variant \in {"part_000", "part_001"}
  /\ serversFile \in ServerFiles
  /\ tagText = <<>>
  /\ download = NotCalled
  /\ rewritten = <<>>
  /\ now = 0
  /\ ms = 0
  /\ nStarted = 1
  /\ msgCount = 0
  /\ crashed = FALSE
  /\ rounds = [r \in 1..1 |->
       sendUDPRequests(IdleRound,
         IF variant = "part_000" THEN loadServers(serversFile) ELSE <<>>)]
  /\ timers = ArmAtCreate(<<>>, 1)

OnRoundMessage(r) == Receive(r, MaxMsgs)

RoundNext ==
  \/ Advance
  \/ \E r \in DOMAIN rounds : BindFail(r)
  \/ \E r \in DOMAIN rounds : BindOk000(r)
  \/ \E r \in DOMAIN rounds : BindOk001(r)
  \/ \E r \in DOMAIN rounds : CallbackLoaded(r)
  \/ \E r \in DOMAIN rounds : OnRoundMessage(r)
  \/ \E r \in DOMAIN rounds : OnTimeout(r)
  \/ \E r \in DOMAIN rounds : ProcessEnhancedData(r)
  \/ \E r \in DOMAIN rounds : ProcessIPResponses(r)
  \/ \E r \in DOMAIN rounds : NoResponse(r)

SpecRound == RoundInit /\ [][RoundNext]_vars

(***************************************************************************)
(* One round in every order of its bind, of the read of the server list    *)
(* and of its timer: here the timer of the window may run while the bind   *)
(* or the read is pending, as nothing in the code makes it wait for them.  *)
(***************************************************************************)
TimerDue ==
  /\ ~crashed
  /\ timers # <<>>
  /\ Head(timers).due > now
  /\ now' = Head(timers).due
  /\ ms' = 0
  /\ UNCHANGED <<download, tagText, rewritten, variant, serversFile, timers, rounds, nStarted, msgCount, crashed>>

InterleaveNext ==
  \/ TimerDue
  \/ \E r \in DOMAIN rounds : BindFail(r)
  \/ \E r \in DOMAIN rounds : BindOk000(r)
  \/ \E r \in DOMAIN rounds : BindOk001(r)
  \/ \E r \in DOMAIN rounds : CallbackLoaded(r)
  \/ \E r \in DOMAIN rounds : OnRoundMessage(r)
  \/ \E r \in DOMAIN rounds : OnTimeout(r)
  \/ \E r \in DOMAIN rounds : ProcessEnhancedData(r)
  \/ \E r \in DOMAIN rounds : ProcessIPResponses(r)
  \/ \E r \in DOMAIN rounds : NoResponse(r)

SpecInterleave == RoundInit /\ [][InterleaveNext]_vars

(***************************************************************************)
(* The aggregation on its own: the window of a round with the one target   *)
(* a.test:6567 is over; a datagram of a.test, any of DecodePayloads, and   *)
(* then a datagram of a sender that is no target were received.  The steps *)
(* of main() that follow sendUDPRequests run on that ReplySet.             *)
(***************************************************************************)
\* 04 "Name" 03 "Map" ... as PayloadOk, the length of the description -1.
PayloadNegDesc == [PayloadOk EXCEPT ![28] = 255]

\* 05 "Name" 03 "Map" and the fields of PayloadOk behind them: the length
\* byte of the name counts itself.
PayloadCounted ==
  <<5, 78, 97, 109, 101, 3, 77, 97, 112>> \o SubSeq(PayloadOk, 10, Len(PayloadOk))

\* 07 "[sky]Ab" 01 "M" players=7 wave=1 version=100 00 0000000000
\* 0d "[#f0]|[Up][x]"
PayloadTagged ==
  <<7, 91, 115, 107, 121, 93, 65, 98, 1, 77, 0, 0, 0, 7, 0, 0, 0, 1, 0, 0, 0, 100,
    0, 0, 0, 0, 0, 0, 13, 91, 35, 102, 48, 93, 124, 91, 85, 112, 93, 91, 120, 93>>

\* The first n bytes of a datagram, for every n.
Prefixes(bytes) == {SubSeq(bytes, 1, n) : n \in 0..Len(bytes)}

DecodePayloads ==
  Prefixes(PayloadOk) \cup Prefixes(PayloadTagged) \cup {PayloadNegDesc, PayloadCounted}

\* The round of sendUDPRequests for FileOne when it listens.
BoundRound ==
  IF variant = "part_000"
  THEN BindCallback000([sendUDPRequests(IdleRound, loadServers(FileOne))
                          EXCEPT !.sock = "bound", !.bind = "ok"])
  ELSE SendAll001([sendUDPRequests(IdleRound, <<>>)
                     EXCEPT !.sock = "bound", !.bind = "ok", !.cb = "loading"])

DecodeInit ==
  /\ variant \in {"part_000", "part_001"}
  /\ serversFile = FileOne
  /\ tagText = <<>>
  /\ download = NotCalled
  /\ rewritten = <<>>
  /\ now = UDP_TIMEOUT
  /\ ms = 0
  /\ nStarted = 1
  /\ msgCount = 2
  /\ crashed = FALSE
  /\ timers = <<>>
  /\ \E p \in DecodePayloads, q \in Payloads :
       rounds = [r \in 1..1 |->
         TimeoutHandler(
           MessageHandler(
             MessageHandler(BoundRound, "198.51.100.7", 6567, p, 1),
             "192.0.2.9", 7000, q, 2))]

DecodeNext ==
  \/ \E r \in DOMAIN rounds : ProcessEnhancedData(r)
  \/ \E r \in DOMAIN rounds : ProcessIPResponses(r)
  \/ \E r \in DOMAIN rounds : NoResponse(r)

SpecDecode == DecodeInit /\ [][DecodeNext]_vars

(***************************************************************************)
(* processColorTags on its own: it is applied to a string of brackets,     *)
(* '#', a lower case and an upper case letter, and again to its result.    *)
(***************************************************************************)
TagChars == {LBracket, RBracket, Hash, 97, 66}

TagTexts == UNION {[1..n -> TagChars] : n \in 0..MaxTextLen}

TagsInit ==
  /\ variant \in {"part_000", "part_001"}
  /\ tagText \in TagTexts
  /\ download = NotCalled
  /\ rewritten = <<>>
  /\ serversFile = FileEmpty
  /\ now = 0
  /\ ms = 0
  /\ timers = <<>>
  /\ rounds = [r \in 1..1 |-> IdleRound]
  /\ nStarted = 0
  /\ msgCount = 0
  /\ crashed = FALSE

ProcessColorTags ==
  /\ Len(rewritten) < MaxPasses
  /\ rewritten' = Append(rewritten,
       processColorTags(IF rewritten = <<>> THEN tagText ELSE rewritten[Len(rewritten)],
                        variant))
  /\ UNCHANGED <<download, tagText, variant, serversFile, now, ms, timers, rounds, nStarted,
                 msgCount, crashed>>

SpecTags == TagsInit /\ [][ProcessColorTags]_vars

(***************************************************************************)
(* downloadServerList on its own, called by main() of part_000 when the    *)
(* list it loaded is empty.  An attempt is one https.get: it resolves when *)
(* the status is 200, the body has ended and the file is written, and it   *)
(* is rejected by another status, by an 'error' of the request or by the   *)
(* error of writeFile.  The log keeps what the call did, in order.         *)
(***************************************************************************)
Rejections == {"status", "error", "writeFile"}

Event(ev, d, why) ==
  [ev |-> ev, urlIndex |-> d.urlIndex, attempt |-> d.attempt, why |-> why]

Logged(d, ev, why) == [d EXCEPT !.log = Append(@, Event(ev, d, why))]

\* The call: urlIndex is 0 and attempt is 1, and the first https.get is due.
downloadServerList ==
  [pc |-> "get", urlIndex |-> 0, attempt |-> 1, data |-> <<>>, log |-> <<>>]

\* The catch of an attempt that waits RETRY_DELAY whatever the attempt is.
catchAttemptAlwaysWaits(d) == [d EXCEPT !.pc = "delay"]

\* The catch of an attempt, and what the two loops do next: the pause before
\* the next attempt, the first attempt of the next mirror, or the throw.
catchAttempt(d) ==
  IF d.attempt < MAX_RETRIES THEN [d EXCEPT !.pc = "delay"]
  ELSE IF d.urlIndex + 1 < Len(SERVER_LIST_URLS)
       THEN [d EXCEPT !.pc = "get", !.urlIndex = @ + 1, !.attempt = 1]
       ELSE Logged([d EXCEPT !.pc = "thrown"], "throw", "all sources failed")

DownloadInit ==
  /\ variant = "part_000"
  /\ serversFile = FileEmpty
  /\ download = downloadServerList
  /\ tagText = <<>>
  /\ rewritten = <<>>
  /\ now = 0
  /\ ms = 0
  /\ timers = <<>>
  /\ rounds = [r \in 1..1 |-> IdleRound]
  /\ nStarted = 1
  /\ msgCount = 0
  /\ crashed = FALSE

\* https.get(url, ...) of the attempt.
HttpsGet ==
  /\ download.pc = "get"
  /\ download' = Logged([download EXCEPT !.pc = "pending"], "get", "")
  /\ UNCHANGED <<tagText, rewritten, variant, serversFile, now, ms, timers, rounds,
                 nStarted, msgCount, crashed>>

\* The body was received and written to SERVER_LIST_PATH: the call returns it.
Downloaded ==
  /\ download.pc = "pending"
  /\ \E data \in ServerFiles :
       /\ serversFile' = data
       /\ download' = Logged([download EXCEPT !.pc = "returned", !.data = data],
                             "resolve", "")
  /\ UNCHANGED <<tagText, rewritten, variant, now, ms, timers, rounds, nStarted,
                 msgCount, crashed>>

\* The attempt is rejected: the catch logs it and the loops go on.
Rejected ==
  /\ download.pc = "pending"
  /\ \E why \in Rejections :
       download' = catchAttempt(Logged(download, "reject", why))
  /\ UNCHANGED <<tagText, rewritten, variant, serversFile, now, ms, timers, rounds,
                 nStarted, msgCount, crashed>>

\* setTimeout(res, RETRY_DELAY) has run: the next attempt on the same mirror.
RetryDelay ==
  /\ download.pc = "delay"
  /\ now' = now + RETRY_DELAY
  /\ download' = [Logged(download, "delay", "") EXCEPT !.pc = "get", !.attempt = @ + 1]
  /\ UNCHANGED <<tagText, rewritten, variant, serversFile, ms, timers, rounds,
                 nStarted, msgCount, crashed>>

DownloadNext == HttpsGet \/ Downloaded \/ Rejected \/ RetryDelay

SpecDownload == DownloadInit /\ [][DownloadNext]_vars

(***************************************************************************)
(* What the properties speak of.                                           *)
(***************************************************************************)
\* The target list of round r.
TargetsOf(r) ==
  IF variant = "part_000" THEN rounds[r].servers ELSE loadServers(serversFile)

\* The datagrams of round r that target t sent.
FromTarget(r, t) ==
  {i \in 1..Len(rounds[r].delivered) :
     /\ rounds[r].delivered[i].address = Resolve(t.host)
     /\ rounds[r].delivered[i].port = t.port}

\* The timer of round r is pending.
Armed(r) == \E i \in 1..Len(timers) : timers[i].kind = "timeout" /\ timers[i].r = r

\* The name of a Report entry: part_000 "ip", part_001 the key in results.
EntryName(e) == IF variant = "part_000" THEN e.ip ELSE e.key

\* The Report entries that stand for the key k.
EntriesOf(r, k) ==
  {i \in 1..Len(rounds[r].report) :
     EntryName(rounds[r].report[i]) \in {k, displayAddress(k)}}

\* The main() of round r has its outputs.
Final(r) == rounds[r].pc = "final"

(***************************************************************************)
(* C1.  Rounds never overlap on the local port: in every state at most one *)
(* round has a socket that is open or bound.                               *)
(* part_001 breaks it: the interval, set before the first main(), runs at  *)
(* UDP_TIMEOUT before the timer of the first round.                        *)
(***************************************************************************)
C1_RoundsNeverOverlap ==
  Cardinality({r \in DOMAIN rounds : rounds[r].sock \in {"open", "bound"}}) <= 1

(***************************************************************************)
(* C2.  For a non-empty target list, a step that closes the socket of a    *)
(* round or resolves its result is the step of its due timer; no datagram, *)
(* whoever sent it and however many came, ends the window.                 *)
(***************************************************************************)
C2_OnlyTheTimerEndsTheWindow ==
  [][\A r \in DOMAIN rounds :
       ( /\ TargetsOf(r) # <<>>
         /\ \/ rounds[r].sock # "closed" /\ rounds'[r].sock = "closed"
            \/ rounds'[r].resolveCalls # rounds[r].resolveCalls
            \/ rounds[r].pc = "probe" /\ rounds'[r].pc # "probe" )
       => /\ timers # <<>>
          /\ Head(timers) = Timeout(r, Head(timers).due)
          /\ Head(timers).due <= now
          /\ timers' = Tail(timers)
          /\ msgCount' = msgCount]_vars

\* Every target has answered, two datagrams came, and the window is open.
C2_Witness ==
  \E r \in DOMAIN rounds :
    /\ TargetsOf(r) # <<>>
    /\ \A i \in 1..Len(TargetsOf(r)) : FromTarget(r, TargetsOf(r)[i]) # {}
    /\ Len(rounds[r].delivered) >= 2
    /\ rounds[r].sock = "bound"
    /\ rounds[r].pc = "probe"
    /\ rounds[r].resolveCalls = 0

(***************************************************************************)
(* C3.  Every round that creates the endpoint closes it exactly once and   *)
(* then resolves exactly once: socket.close() and resolve are never called *)
(* twice, a resolved round is closed, and an endpoint that is not closed   *)
(* has its close ahead (its bind is pending or its timer is armed).        *)
(* part_000 breaks it when the bind fails (C10): no close, no resolve.     *)
(***************************************************************************)
C3_ClosedExactlyOnce ==
  \A r \in DOMAIN rounds :
    /\ rounds[r].closeCalls <= 1
    /\ rounds[r].resolveCalls <= 1
    /\ rounds[r].resolveCalls = 1 => rounds[r].closeCalls = 1
    /\ rounds[r].sock \in {"open", "bound"} =>
         /\ ~crashed
         /\ rounds[r].bind = "pending" \/ Armed(r)
         /\ rounds[r].closeCalls = 0

(***************************************************************************)
(* C4, as claimed.  With an empty target list the round, once bound, has   *)
(* closed the endpoint and returned an empty ReplySet without sending and  *)
(* without waiting.                                                        *)
(***************************************************************************)
C4_EmptyClosesAtOnce ==
  \A r \in DOMAIN rounds :
    (TargetsOf(r) = <<>> /\ rounds[r].bind = "ok") =>
      /\ rounds[r].sock = "closed"
      /\ rounds[r].resolveCalls = 1
      /\ rounds[r].sent = <<>>
      /\ rounds[r].responses = <<>>
      /\ ~Armed(r)

(***************************************************************************)
(* C4, amended.  With an empty target list no request is sent.  part_000   *)
(* closes the endpoint in the bind callback, arms no timer and returns an  *)
(* empty ReplySet at the time of the bind.  part_001 has no such case: the *)
(* socket is closed, and the result returned, by the timer and not before  *)
(* UDP_TIMEOUT has passed.                                                 *)
(***************************************************************************)
C4_EmptyTargets ==
  \A r \in DOMAIN rounds :
    (TargetsOf(r) = <<>> /\ rounds[r].bind = "ok") =>
      /\ rounds[r].sent = <<>>
      /\ ~rounds[r].lateSend
      /\ variant = "part_000" =>
           /\ rounds[r].sock = "closed"
           /\ rounds[r].closeCalls = 1
           /\ rounds[r].resolveCalls = 1
           /\ rounds[r].responses = <<>>
           /\ ~Armed(r)
           /\ now = 0
      /\ variant = "part_001" =>
           /\ rounds[r].sock = "closed" <=> rounds[r].resolveCalls = 1
           /\ rounds[r].sock = "closed" <=> ~Armed(r)
           /\ rounds[r].sock = "closed" => now >= UDP_TIMEOUT

\* part_000 has returned from a round with no target.
C4_Witness ==
  \E r \in DOMAIN rounds :
    /\ variant = "part_000"
    /\ rounds[r].servers = <<>>
    /\ rounds[r].bind = "ok"
    /\ rounds[r].pc = "resolved"

(***************************************************************************)
(* C5.  When main() has its outputs, the Report has exactly one entry for  *)
(* each target that sent a datagram in the window, under the target's      *)
(* declared key or under the address it sent from.                         *)
(* part_000 breaks it: the replies of every target of one port go to the   *)
(* key of the first of them.                                               *)
(***************************************************************************)
EntriesFor(r, t) ==
  EntriesOf(r, KeyOf(t.host, t.port)) \cup EntriesOf(r, KeyOf(Resolve(t.host), t.port))

C5_OneEntryPerRespondingTarget ==
  \A r \in DOMAIN rounds :
    Final(r) =>
      \A i \in 1..Len(TargetsOf(r)) :
        FromTarget(r, TargetsOf(r)[i]) # {} =>
          Cardinality(EntriesFor(r, TargetsOf(r)[i])) = 1

(***************************************************************************)
(* C6.  The key a datagram from address:port is to be stored under.        *)
(***************************************************************************)
DeclaredKey(r, port) ==
  LET T == TargetsOf(r)
      i == FindFirst(T, LAMBDA t : t.port = port)
  IN KeyOf(T[i].host, T[i].port)

HasPort(r, port) == \E i \in 1..Len(TargetsOf(r)) : TargetsOf(r)[i].port = port

\* The datagrams of round r that are to be under key k, by the rule Key.
StoredUnder(r, k, Key(_)) ==
  {i \in 1..Len(rounds[r].delivered) : Key(rounds[r].delivered[i]) = k}

\* The ReplySet of round r holds every datagram under its key by the rule
\* Key, and nothing else; the Report names every such key.
Correlated(r, Key(_)) ==
  /\ \A i \in 1..Len(rounds[r].delivered) :
       HasKey(rounds[r].responses, Key(rounds[r].delivered[i]))
  /\ \A j \in 1..Len(rounds[r].responses) :
       LET k == rounds[r].responses[j].key
       IN /\ Len(rounds[r].responses[j].list) = Cardinality(StoredUnder(r, k, Key))
          /\ \A i \in StoredUnder(r, k, Key) :
               \E n \in 1..Len(rounds[r].responses[j].list) :
                 rounds[r].responses[j].list[n] =
                   [timestamp |-> rounds[r].delivered[i].timestamp,
                    response |-> ToHex(rounds[r].delivered[i].payload)]
  /\ Final(r) =>
       \A i \in 1..Len(rounds[r].delivered) :
         EntriesOf(r, Key(rounds[r].delivered[i])) # {}

(***************************************************************************)
(* C6, as claimed.  Every datagram from a port that a target declares is   *)
(* stored under the declared key of the target, any other under its raw    *)
(* key, and the Report names the declared key.                             *)
(***************************************************************************)
C6_SecondaryMatch ==
  \A r \in DOMAIN rounds :
    Correlated(r, LAMBDA d : IF HasPort(r, d.port) THEN DeclaredKey(r, d.port)
                             ELSE KeyOf(d.address, d.port))

(***************************************************************************)
(* C6, amended.  part_000 stores a datagram from address:port under the    *)
(* declared key of the first target of the list with that port, whatever   *)
(* the address, and under the raw key when no target has the port; the     *)
(* Report names that key (the host alone for the default port).  part_001  *)
(* has no secondary match: it stores every datagram under its raw key.     *)
(***************************************************************************)
C6_SecondaryMatchPart000 ==
  \A r \in DOMAIN rounds :
    Correlated(r, LAMBDA d : IF variant = "part_000" /\ HasPort(r, d.port)
                             THEN DeclaredKey(r, d.port)
                             ELSE KeyOf(d.address, d.port))

\* example.com:6567 answered from 203.0.113.5:6567 is example.com in the
\* Report of part_000.
C6_Witness ==
  \E r \in DOMAIN rounds :
    /\ variant = "part_000"
    /\ Final(r)
    /\ \E i \in 1..Len(rounds[r].delivered) :
         /\ rounds[r].delivered[i].address = "203.0.113.5"
         /\ rounds[r].delivered[i].port = 6567
         /\ rounds[r].delivered[i].payload = PayloadOk
    /\ TargetsOf(r)[1].host = "example.com"
    /\ \E j \in 1..Len(rounds[r].report) : rounds[r].report[j].ip = <<"example.com">>

(***************************************************************************)
(* C7.  When main() has its outputs, every target that sent no datagram in *)
(* the window has no entry in the Report, and is in the non-responding     *)
(* list where the program has one (part_001).                              *)
(* part_000 breaks it by C5: the silent first target of a port gets the    *)
(* entry of the replies of another target of that port.                    *)
(***************************************************************************)
C7_SilentTargets ==
  \A r \in DOMAIN rounds :
    Final(r) =>
      \A i \in 1..Len(TargetsOf(r)) :
        LET t == TargetsOf(r)[i]
        IN FromTarget(r, t) = {} =>
             /\ EntriesFor(r, t) = {}
             /\ variant = "part_001" =>
                  \E n \in 1..Len(rounds[r].noResponse) : rounds[r].noResponse[n] = t

(***************************************************************************)
(* C8.  For each key of the ReplySet the Report entry is decoded from the  *)
(* reply of the latest timestamp, and among the replies of that timestamp  *)
(* from the one appended last.                                             *)
(* part_000 breaks it: its stable sort, latest first, leaves the reply     *)
(* appended first at the head of the replies of the latest timestamp.      *)
(***************************************************************************)
\* The datagrams stored under key k, in arrival order.
ArrivedUnder(r, k) == SelectSeq(rounds[r].delivered, LAMBDA d : d.key = k)

\* The latest of them, the last appended of the latest.
Authoritative(r, k) ==
  LET a == ArrivedUnder(r, k)
      last == CHOOSE i \in 1..Len(a) :
                /\ \A j \in 1..Len(a) : a[j].timestamp <= a[i].timestamp
                /\ \A j \in (i + 1)..Len(a) : a[j].timestamp < a[i].timestamp
  IN a[last]

DecodedFrom(e, d) ==
  IF variant = "part_000"
  THEN IF parseServerInfo(ToHex(d.payload)).ok
       THEN /\ e.name = parseServerInfo(ToHex(d.payload)).name
            /\ e.updatedAt = d.timestamp
            /\ e.receivedMeta = Len(d.payload)
       ELSE e.name = ParseFailedName
  ELSE /\ e.raw_hex = ToHex(d.payload)
       /\ parseHexPayload(ToHex(d.payload)).ok => e.last_updated = d.timestamp
       /\ ~parseHexPayload(ToHex(d.payload)).ok => e.name = ParseFailedName

C8_LatestLastAppended ==
  \A r \in DOMAIN rounds :
    Final(r) =>
      \A j \in 1..Len(rounds[r].responses) :
        LET k == rounds[r].responses[j].key
        IN \A i \in EntriesOf(r, k) :
             DecodedFrom(rounds[r].report[i], Authoritative(r, k))

(***************************************************************************)
(* C9.  For every key of the ReplySet the reply count of the Report entry  *)
(* (part_000 sentPackets, part_001 the length of all_responses) is the     *)
(* length of the list of the key, decoded or not.                          *)
(* part_000 breaks it: the entry of a reply that is not decoded has        *)
(* sentPackets 0.                                                          *)
(***************************************************************************)
replyCount(e) == IF variant = "part_000" THEN e.sentPackets ELSE Len(e.all_responses)

C9_ReplyCount ==
  \A r \in DOMAIN rounds :
    Final(r) =>
      \A j \in 1..Len(rounds[r].responses) :
        /\ EntriesOf(r, rounds[r].responses[j].key) # {}
        /\ \A i \in EntriesOf(r, rounds[r].responses[j].key) :
             replyCount(rounds[r].report[i]) = Len(rounds[r].responses[j].list)

(***************************************************************************)
(* C10.  When the bind of the local port has failed, the socket is closed  *)
(* with the report of the failure, the program goes on, and the round      *)
(* never resolves a ReplySet as a round that was bound does.               *)
(* Neither part does so: part_000 has no 'error' listener when the bind    *)
(* fails, part_001 logs the error and returns {} when the window is over.  *)
(***************************************************************************)
C10_BindFailureReported ==
  \A r \in DOMAIN rounds :
    rounds[r].bind = "failed" =>
      /\ ~crashed
      /\ rounds[r].sock = "closed"
      /\ rounds[r].resolveCalls = 0

(***************************************************************************)
(* C11.  When the send to a target of the list fails, the request has      *)
(* still gone exactly once to every target whose send does not fail, the   *)
(* process runs on, the socket listens until the timer of the window       *)
(* closes it, and the ReplySet is resolved then.                           *)
(* A send that throws (a port outside 1..65535) breaks it: the forEach     *)
(* ends there; part_000 ends with an uncaught exception before it listens, *)
(* part_001 catches it and sends nothing to the targets that follow.       *)
(***************************************************************************)
SendFails(t) == ~PortOk(t.port) \/ Unresolvable(t.host)

Dispatched(r, t) ==
  Cardinality({j \in 1..Len(rounds[r].sent) : rounds[r].sent[j] = t})

C11_SendFailureDoesNotAbort ==
  \A r \in DOMAIN rounds :
    ( /\ rounds[r].cb \in {"done", "thrown"}
      /\ rounds[r].pc # "done"
      /\ \E i \in 1..Len(TargetsOf(r)) : SendFails(TargetsOf(r)[i]) )
    => /\ ~crashed
       /\ \A i \in 1..Len(TargetsOf(r)) :
            ~SendFails(TargetsOf(r)[i]) => Dispatched(r, TargetsOf(r)[i]) = 1
       /\ rounds[r].sock # "closed" => Armed(r) /\ Listening(rounds[r])
       /\ rounds[r].sock = "closed" =>
            rounds[r].resolveCalls = 1 /\ now >= UDP_TIMEOUT

(***************************************************************************)
(* The layout of a reply, as parseServerInfo walks it: byte 0 the length   *)
(* of the name, the name, the length of the map, the map, 12 bytes, the    *)
(* length of the version type, the version type, 5 bytes, the signed       *)
(* length of the description, the description.                             *)
(***************************************************************************)
NameLen(p) == p[1]
MapLen(p) == p[NameLen(p) + 2]
TypeLenAt(p) == NameLen(p) + MapLen(p) + 14
DescLenAt(p) == TypeLenAt(p) + p[TypeLenAt(p) + 1] + 6
DescLen(p) == IF p[DescLenAt(p) + 1] >= 128 THEN p[DescLenAt(p) + 1] - 256
              ELSE p[DescLenAt(p) + 1]

\* Every length byte and every text the lengths declare is inside the
\* datagram, and no length is negative.
WellFormed(p) ==
  /\ Len(p) >= 1
  /\ NameLen(p) + 1 < Len(p)
  /\ TypeLenAt(p) < Len(p)
  /\ DescLenAt(p) < Len(p)
  /\ DescLen(p) >= 0
  /\ DescLenAt(p) + 1 + DescLen(p) <= Len(p)

NameText(p) == SubSeq(p, 2, NameLen(p) + 1)
MapText(p) == SubSeq(p, NameLen(p) + 3, NameLen(p) + 2 + MapLen(p))

\* The datagrams of round r that are the only one under their key.
Alone(r) ==
  {i \in 1..Len(rounds[r].delivered) :
     Len(ArrivedUnder(r, rounds[r].delivered[i].key)) = 1}

Failed(e) == e.name = ParseFailedName

(***************************************************************************)
(* C12.  part_000: the entry of a datagram in which a length byte or a     *)
(* declared text lies past the end, or whose description length is         *)
(* negative, is the entry of a decode failure.                             *)
(* parseServerInfo breaks it: only its readUInt8 / readInt8 check the      *)
(* range; buf.toString clamps, so a text cut short or of negative length   *)
(* comes back shortened or empty in a record that counts as decoded.       *)
(***************************************************************************)
C12_DecoderBoundsChecked ==
  \A r \in DOMAIN rounds :
    (variant = "part_000" /\ Final(r)) =>
      \A i \in Alone(r) :
        ~WellFormed(rounds[r].delivered[i].payload) =>
          \A j \in EntriesOf(r, rounds[r].delivered[i].key) :
            Failed(rounds[r].report[j])

(***************************************************************************)
(* C13.  The entry of a reply that is not decoded is marked as failed and  *)
(* carries the size of that reply (part_000 receivedMeta, part_001 the     *)
(* bytes of raw_hex).                                                      *)
(* part_000 breaks it: its catch writes receivedMeta 0, and the fixed text *)
(* of ParseFailedDesc in place of err.message.                             *)
(***************************************************************************)
payloadSize(e) ==
  IF variant = "part_000" THEN e.receivedMeta ELSE Len(e.raw_hex) \div 2

C13_FailedEntryCarriesSize ==
  \A r \in DOMAIN rounds :
    Final(r) =>
      \A i \in Alone(r) :
        \A j \in EntriesOf(r, rounds[r].delivered[i].key) :
          Failed(rounds[r].report[j]) =>
            payloadSize(rounds[r].report[j]) = Len(rounds[r].delivered[i].payload)

(***************************************************************************)
(* C14.  processEnhancedData returns with an entry for every key of the    *)
(* ReplySet, and the entries of the keys that are decoded are the ones it  *)
(* returns for the ReplySet without the keys that are not.                 *)
(***************************************************************************)
DecodedKey(r, k) == \A j \in EntriesOf(r, k) : ~Failed(rounds[r].report[j])

WithoutFailed(r) ==
  processEnhancedData(
    [rounds[r] EXCEPT !.responses = SelectSeq(@, LAMBDA e : DecodedKey(r, e.key))]).report

C14_FailureDoesNotAbort ==
  \A r \in DOMAIN rounds :
    Final(r) =>
      /\ Len(rounds[r].report) = Len(rounds[r].responses)
      /\ \A j \in 1..Len(rounds[r].responses) :
           Cardinality(EntriesOf(r, rounds[r].responses[j].key)) = 1
      /\ SelectSeq(rounds[r].report, LAMBDA e : ~Failed(e)) = WithoutFailed(r)

\* The reply of one key was not decoded, the reply of another was.
C14_Witness ==
  \E r \in DOMAIN rounds :
    /\ Final(r)
    /\ Len(rounds[r].report) = 2
    /\ Failed(rounds[r].report[1])
    /\ ~Failed(rounds[r].report[2])

(***************************************************************************)
(* C15.  part_000: the entry of a reply with consistent lengths has the    *)
(* name text as its name and the map text as its map (both after the       *)
(* rewrite of "[]" and of the color tags), and the entry of a reply that   *)
(* ends inside its name is the entry of a decode failure.                  *)
(* parseServerInfo breaks it: buf.toString('utf-8', 1, nameLenth - 1)      *)
(* leaves out the last two bytes of the name.                              *)
(***************************************************************************)
Shown(text) == processColorTags(ReplaceEmptyTag(text), "part_000")

C15_NameAndMapDecoded ==
  \A r \in DOMAIN rounds :
    (variant = "part_000" /\ Final(r)) =>
      \A i \in Alone(r) :
        LET p == rounds[r].delivered[i].payload
        IN \A j \in EntriesOf(r, rounds[r].delivered[i].key) :
             /\ WellFormed(p) =>
                  /\ ~Failed(rounds[r].report[j])
                  /\ rounds[r].report[j].name = Shown(NameText(p))
                  /\ rounds[r].report[j].map = Shown(MapText(p))
             /\ (Len(p) >= 1 /\ Len(p) < NameLen(p) + 1) =>
                  Failed(rounds[r].report[j])

(***************************************************************************)
(* C16.  part_000, which has the decoder: a reply of fewer than 2 bytes    *)
(* has exactly one entry, the entry of a decode failure; processEnhanced-  *)
(* Data returns an entry for every key and the process runs on.            *)
(***************************************************************************)
C16_ShortPayloadFails ==
  \A r \in DOMAIN rounds :
    (variant = "part_000" /\ Final(r)) =>
      /\ ~crashed
      /\ Len(rounds[r].report) = Len(rounds[r].responses)
      /\ \A i \in Alone(r) :
           Len(rounds[r].delivered[i].payload) < 2 =>
             /\ Cardinality(EntriesOf(r, rounds[r].delivered[i].key)) = 1
             /\ \A j \in EntriesOf(r, rounds[r].delivered[i].key) :
                  Failed(rounds[r].report[j])

\* A reply of one byte has the entry of a decode failure.
C16_Witness ==
  \E r \in DOMAIN rounds :
    /\ variant = "part_000"
    /\ Final(r)
    /\ Len(rounds[r].delivered[1].payload) = 1
    /\ Failed(rounds[r].report[1])

(***************************************************************************)
(* C17.  Every datagram the handler is given is in the ReplySet from then  *)
(* on, and a datagram from an address and a port that no target has is     *)
(* under its raw key address:port.                                         *)
(***************************************************************************)
Recorded(r, d, k) ==
  \E j \in 1..Len(rounds[r].responses) :
    /\ rounds[r].responses[j].key = k
    /\ \E n \in 1..Len(rounds[r].responses[j].list) :
         rounds[r].responses[j].list[n] =
           [timestamp |-> d.timestamp, response |-> ToHex(d.payload)]

RECURSIVE TotalReplies(_)
TotalReplies(rs) ==
  IF rs = <<>> THEN 0 ELSE Len(Head(rs).list) + TotalReplies(Tail(rs))

C17_UnknownSenderRecorded ==
  \A r \in DOMAIN rounds :
    /\ TotalReplies(rounds[r].responses) = Len(rounds[r].delivered)
    /\ \A i \in 1..Len(rounds[r].delivered) :
         LET d == rounds[r].delivered[i]
         IN /\ \E j \in 1..Len(rounds[r].responses) :
                 Recorded(r, d, rounds[r].responses[j].key)
            /\ ~HasPort(r, d.port) => Recorded(r, d, KeyOf(d.address, d.port))

\* A datagram of 192.0.2.9:7000, which is no target, is in the ReplySet.
C17_Witness ==
  \E r \in DOMAIN rounds :
    /\ TargetsOf(r) # <<>>
    /\ \E i \in 1..Len(rounds[r].delivered) :
         /\ rounds[r].delivered[i].address = "192.0.2.9"
         /\ rounds[r].delivered[i].port = 7000
    /\ HasKey(rounds[r].responses, KeyOf("192.0.2.9", 7000))

(***************************************************************************)
(* C18.  In every state every key of the ReplySet has a list that is not   *)
(* empty and that is the datagrams stored under the key, all of them, in   *)
(* the order they arrived.                                                 *)
(* part_000 breaks it by C19: processEnhancedData sorts every list in      *)
(* place, latest first.                                                    *)
(***************************************************************************)
InArrivalOrder(r, j) ==
  LET a == ArrivedUnder(r, rounds[r].responses[j].key)
  IN rounds[r].responses[j].list =
       [n \in 1..Len(a) |->
          [timestamp |-> a[n].timestamp, response |-> ToHex(a[n].payload)]]

C18_ReplySetLists ==
  \A r \in DOMAIN rounds :
    \A j \in 1..Len(rounds[r].responses) :
      /\ rounds[r].responses[j].list # <<>>
      /\ InArrivalOrder(r, j)

(***************************************************************************)
(* C19.  From the step that resolves the ReplySet to the return of main()  *)
(* no step changes the ReplySet.                                           *)
(* part_000 breaks it: responses.sort in processEnhancedData sorts the     *)
(* lists of the ReplySet itself, latest first.                             *)
(***************************************************************************)
C19_ReplySetFrozen ==
  [][\A r \in DOMAIN rounds :
       ( /\ rounds[r].pc \in {"resolved", "enhanced", "ipdone", "final"}
         /\ rounds'[r].pc # "done" )
       => rounds'[r].responses = rounds[r].responses]_vars

(***************************************************************************)
(* C20.  One pass of processColorTags turns the '[' and the ']' of every   *)
(* token [x] into '{' and '}' and leaves every other character, those of x *)
(* too, as it is; a second pass returns the result of the first.  The      *)
(* token text x is what the colorTagRegex of the part takes between the    *)
(* brackets: part_000 one or more of a-z, 0-9 and '#'; part_001 one or     *)
(* more word characters, after a '#' or not.                               *)
(* part_001 breaks it: /\[#?(\w+)\]/g leaves the '#' out of $1, so [#a]    *)
(* becomes {a}.                                                            *)
(***************************************************************************)
\* s[i..j] is a token [x].
IsToken(s, i, j) ==
  /\ i + 1 < j
  /\ s[i] = LBracket
  /\ s[j] = RBracket
  /\ IF variant = "part_000"
     THEN \A k \in (i + 1)..(j - 1) : IsTok000(s[k])
     ELSE LET b == IF s[i + 1] = Hash THEN i + 2 ELSE i + 1
          IN b < j /\ \A k \in b..(j - 1) : IsWord(s[k])

Converted(s) ==
  [i \in 1..Len(s) |->
     IF \E j \in 1..Len(s) : IsToken(s, i, j) THEN LBrace
     ELSE IF \E h \in 1..Len(s) : IsToken(s, h, i) THEN RBrace
     ELSE s[i]]

C20_ColorTagsIdempotent ==
  /\ Len(rewritten) >= 1 => rewritten[1] = Converted(tagText)
  /\ Len(rewritten) >= 2 => rewritten[2] = rewritten[1]

(***************************************************************************)
(* C21.  When main() has its outputs, the Report names every key of the    *)
(* ReplySet by its display address and by nothing else: the host alone     *)
(* for the port defaultPort, host and port for any other port, whether the *)
(* reply was decoded or not.                                               *)
(* The catch of both parts breaks it: the entry of a reply that is not     *)
(* decoded is named by the whole key, host:6567 for the default port.      *)
(***************************************************************************)
C21_DisplayAddress ==
  \A r \in DOMAIN rounds :
    Final(r) =>
      /\ \A j \in 1..Len(rounds[r].responses) :
           \E i \in 1..Len(rounds[r].report) :
             EntryName(rounds[r].report[i]) = displayAddress(rounds[r].responses[j].key)
      /\ \A i \in 1..Len(rounds[r].report) :
           \E j \in 1..Len(rounds[r].responses) :
             EntryName(rounds[r].report[i]) = displayAddress(rounds[r].responses[j].key)

(***************************************************************************)
(* C22.  downloadServerList tries the mirrors in the order of the list,    *)
(* with at most MAX_RETRIES attempts on each.  The k-th https.get of the   *)
(* call is attempt (k-1) % 3 + 1 on mirror (k-1) \div 3, so a mirror is    *)
(* left only after three rejected attempts.  The first attempt that        *)
(* resolves ends the call, which returns the data it wrote.  RETRY_DELAY   *)
(* is waited after a rejected first or second attempt and at no other      *)
(* place, and the call throws only when all 3 x 3 attempts were rejected.  *)
(***************************************************************************)
Gets(log) == KeepIdx(log, LAMBDA i : log[i].ev = "get")

CountOf(log, ev) == Cardinality({i \in 1..Len(log) : log[i].ev = ev})

C22_MirrorsInOrder ==
  LET log  == download.log
      gets == Gets(log)
  IN  /\ Len(gets) <= MAX_RETRIES * Len(SERVER_LIST_URLS)
      /\ \A k \in 1..Len(gets) :
           /\ gets[k].urlIndex = (k - 1) \div MAX_RETRIES
           /\ gets[k].attempt = ((k - 1) % MAX_RETRIES) + 1
      /\ \A i \in 1..Len(log) :
           LET e    == log[i]
               last == i = Len(log)
           IN  /\ e.ev = "get" /\ ~last =>
                    /\ log[i + 1].ev \in {"resolve", "reject"}
                    /\ log[i + 1].urlIndex = e.urlIndex
                    /\ log[i + 1].attempt = e.attempt
               /\ e.ev = "resolve" => last /\ i > 1 /\ log[i - 1].ev = "get"
               /\ e.ev = "reject" /\ e.attempt < MAX_RETRIES =>
                    last \/ log[i + 1].ev = "delay"
               /\ e.ev = "reject" /\ e.attempt = MAX_RETRIES =>
                    IF e.urlIndex + 1 < Len(SERVER_LIST_URLS)
                    THEN last \/ log[i + 1].ev = "get"
                    ELSE ~last /\ log[i + 1].ev = "throw"
               /\ e.ev = "delay" =>
                    /\ i > 1 /\ log[i - 1].ev = "reject"
                    /\ log[i - 1].attempt < MAX_RETRIES
                    /\ last \/ (log[i + 1].ev = "get" /\ log[i + 1].urlIndex = e.urlIndex)
               /\ e.ev = "throw" =>
                    /\ last
                    /\ CountOf(log, "reject") = MAX_RETRIES * Len(SERVER_LIST_URLS)
                    /\ CountOf(log, "resolve") = 0
      /\ download.pc = "returned" <=>
           (log # <<>> /\ log[Len(log)].ev = "resolve")
      /\ download.pc = "returned" => download.data = serversFile
      /\ download.pc = "thrown" <=> (log # <<>> /\ log[Len(log)].ev = "throw")
      /\ download.pc = "delay" <=>
           (log # <<>> /\ log[Len(log)].ev = "reject"
              /\ log[Len(log)].attempt < MAX_RETRIES)
      /\ download.pc # "none" => now = RETRY_DELAY * CountOf(log, "delay")

\* The second attempt on the second mirror resolved, after three rejected
\* attempts on the first and three pauses in all.
C22_Witness ==
  /\ download.pc = "returned"
  /\ download.urlIndex = 1
  /\ download.attempt = 2
  /\ now = 3 * RETRY_DELAY

(***************************************************************************)
(* C23.  In every order of the bind, of the read of the server list and of *)
(* the timer of the window, socket.send is never called on a socket that   *)
(* socket.close() has closed: the sends of a round come before its close.  *)
(* part_000 sends in the bind callback and arms the timer after the sends. *)
(* part_001 arms the timer when the socket is created and sends after the  *)
(* await of loadServers in the bind callback: when the timer runs first,   *)
(* the forEach calls send on the closed socket, the call throws and the    *)
(* round has sent to no target.                                            *)
(***************************************************************************)
C23_SendsPrecedeClose ==
  \A r \in DOMAIN rounds :
    /\ ~rounds[r].lateSend
    /\ rounds[r].cb = "done" /\ rounds[r].servers # <<>> /\ FirstThrow(rounds[r].servers) # 1
         => rounds[r].sent # <<>>

====
